---- MODULE Spec2Model ----
(***************************************************************************)
(* A model of the YT-M3U8 API (src/main.py): the variant selection of the  *)
(* playlist endpoints, the synthetic master playlist, the manifest         *)
(* rewriter, the reverse proxy, the sub-playlist endpoint and the cookie    *)
(* file, and of the stream endpoint of the serverless app                  *)
(* (src/api/index.py).                                                     *)
(*                                                                         *)
(* Texts (manifests, URLs, host names) are TLA+ strings and the text       *)
(* functions of the source work on them character by character.            *)
(* A missing or None number of the extraction result (height, tbr,         *)
(* duration) is 0, which is what every `x.get(k) or 0` of the source turns *)
(* it into before use.                                                     *)
(***************************************************************************)
EXTENDS Integers, Sequences, FiniteSets, TLC

VARIABLES
    pc,         \* position of the harness or of the request: "start" | "done"
    content,    \* rewrite_m3u8: the manifest text
    base_url,   \* rewrite_m3u8: the URL the manifest was fetched from
    rewritten,  \* rewrite_m3u8: the returned text
    API_KEY,    \* the configured shared secret ("" when none)
    info,       \* what extract_info returns for the video
    origin,     \* what the origin answers to a manifest or segment fetch
    req,        \* the request being served
    resp,       \* the response sent
    outbound,   \* the outbound calls the request made, in order, each with
                \* its outcome
    cookies_txt, \* COOKIES_DIR/cookies.txt: whether it exists and what it holds
    upload,     \* upload_cookies: where it is in writing the file
    reader,     \* an extraction in an executor thread: where it is in reading
                \* the cookie file
    observed    \* what the extractions loaded as cookie file, in order

cookie_vars == <<cookies_txt, upload, reader, observed>>

vars == <<pc, content, base_url, rewritten, API_KEY, info, origin, req, resp, outbound,
          cookies_txt, upload, reader, observed>>

\* no cookies.txt in COOKIES_DIR
NoFile == [exists |-> FALSE, version |-> 0, size |-> 0]

\* no cookie file, and no request that writes or reads one
CookiesAtRest ==
    /\ cookies_txt = NoFile
    /\ upload = [pc |-> "idle", uploads |-> 0]
    /\ reader = [pc |-> "idle"]
    /\ observed = <<>>

-----------------------------------------------------------------------------
(* Bounds of the model *)

\* most lines of a manifest drawn for rewrite_m3u8
MaxLines == 2

\* most formats of a video drawn for the variant selection
MaxFormats == 3

\* largest height of a format drawn outside a ladder (0: the format has none)
MaxHeight == 2

\* largest average bitrate of a format drawn (0: the format has none)
MaxTbr == 1

\* most rungs of a ladder of formats with distinct heights 1, 2, ...
MaxLadder == 9

\* most formats drawn before or after a ladder
MaxTail == 1

\* most formats of a video drawn for the requests to the server
MaxServerFormats == 2

\* most cookie uploads, and most extractions that look for the cookie file
MaxUploads == 2

MaxLoads == 2

\* the writes the content of an uploaded cookie file takes at most
CookieSize == 2

-----------------------------------------------------------------------------
(* Text helpers: Python's str and re operations, on TLA+ strings *)

Min(S) == CHOOSE m \in S : \A n \in S : m <= n

Max(S) == CHOOSE m \in S : \A n \in S : m >= n

Char(s, i) == SubSeq(s, i, i)

\* s[i-1:].startswith(p)
StartsWithAt(s, p, i) == i + Len(p) - 1 <= Len(s) /\ SubSeq(s, i, i + Len(p) - 1) = p

StartsWith(s, p) == StartsWithAt(s, p, 1)

EndsWith(s, p) == Len(p) <= Len(s) /\ SubSeq(s, Len(s) - Len(p) + 1, Len(s)) = p

\* p in s
Contains(s, p) == \E i \in 1..(Len(s) - Len(p) + 1) : StartsWithAt(s, p, i)

\* s.find(p, from-1) + 1: the first position >= from where p occurs, 0 when none
IndexOf(s, p, from) ==
    LET I == {i \in from..(Len(s) - Len(p) + 1) : StartsWithAt(s, p, i)}
    IN  IF I = {} THEN 0 ELSE Min(I)

\* s.rfind(p) + 1
LastIndexOf(s, p) ==
    LET I == {i \in 1..(Len(s) - Len(p) + 1) : StartsWithAt(s, p, i)}
    IN  IF I = {} THEN 0 ELSE Max(I)

Whitespace == {" ", "\t", "\n", "\r", "\f"}

\* str.strip()
strip(s) ==
    LET N == {i \in 1..Len(s) : Char(s, i) \notin Whitespace}
    IN  IF N = {} THEN "" ELSE SubSeq(s, Min(N), Max(N))

\* the line boundaries of str.splitlines() among the characters drawn
LineBreaks == {"\n", "\r", "\f"}

\* the positions where a line terminator starts: a line break that is not the
\* "\n" of a "\r\n"
TerminatorStarts(s) ==
    {i \in 1..Len(s) :
        /\ Char(s, i) \in LineBreaks
        /\ ~(Char(s, i) = "\n" /\ i > 1 /\ Char(s, i - 1) = "\r")}

\* the first position after the terminator that starts at i
TerminatorEnd(s, i) == IF StartsWithAt(s, "\r\n", i) THEN i + 2 ELSE i + 1

\* the j-th smallest element of a set of numbers
Nth(S, j) == CHOOSE t \in S : Cardinality({u \in S : u <= t}) = j

\* str.splitlines(): the terminators are dropped, and a text that ends with one
\* has no empty last line
splitlines(s) ==
    LET T == TerminatorStarts(s)
        k == Cardinality(T)
        from(j) == IF j = 1 THEN 1 ELSE TerminatorEnd(s, Nth(T, j - 1))
        last == IF k = 0 THEN 1 ELSE TerminatorEnd(s, Nth(T, k))
        terminated == [j \in 1..k |-> SubSeq(s, from(j), Nth(T, j) - 1)]
    IN  IF last > Len(s) THEN terminated ELSE Append(terminated, SubSeq(s, last, Len(s)))

RECURSIVE ConcatRange(_, _, _)
\* pieces[lo] \o ... \o pieces[hi], by halves
ConcatRange(pieces, lo, hi) ==
    IF lo > hi THEN ""
    ELSE IF lo = hi THEN pieces[lo]
    ELSE LET mid == (lo + hi) \div 2
         IN  ConcatRange(pieces, lo, mid) \o ConcatRange(pieces, mid + 1, hi)

\* "".join(pieces)
Concat(pieces) == ConcatRange(pieces, 1, Len(pieces))

\* sep.join(lines)
join(sep, lines) ==
    Concat([i \in 1..Len(lines) |-> IF i = 1 THEN lines[i] ELSE sep \o lines[i]])

-----------------------------------------------------------------------------
(* urllib.parse: quote, unquote, urljoin, urlparse *)

Letters ==
    {"a","b","c","d","e","f","g","h","i","j","k","l","m",
     "n","o","p","q","r","s","t","u","v","w","x","y","z",
     "A","B","C","D","E","F","G","H","I","J","K","L","M",
     "N","O","P","Q","R","S","T","U","V","W","X","Y","Z"}

Digits == {"0","1","2","3","4","5","6","7","8","9"}

\* the characters quote() never encodes
Unreserved == Letters \cup Digits \cup {"_", ".", "-", "~"}

\* the percent-encodings of the other characters that occur in the texts drawn
PercentCodes ==
    {<<":", "%3A">>, <<"/", "%2F">>, <<"?", "%3F">>, <<"=", "%3D">>,
     <<"&", "%26">>, <<"#", "%23">>, <<" ", "%20">>, <<"\"", "%22">>,
     <<"%", "%25">>, <<",", "%2C">>, <<"@", "%40">>, <<"\t", "%09">>}

QuoteChar(c) ==
    IF c \in Unreserved THEN c
    ELSE (CHOOSE p \in PercentCodes : p[1] = c)[2]

\* quote(s, safe='')
quote(s) == Concat([i \in 1..Len(s) |-> QuoteChar(Char(s, i))])

\* a percent-encoding starts at position i of s
EscapeAt(s, i) ==
    i >= 1 /\ i + 2 <= Len(s) /\ \E p \in PercentCodes : p[2] = SubSeq(s, i, i + 2)

\* unquote(s): every percent-encoding is replaced by its character (the two
\* characters after a '%' are hex digits, so encodings never overlap)
unquote(s) ==
    Concat([i \in 1..Len(s) |->
        IF EscapeAt(s, i) THEN (CHOOSE p \in PercentCodes : p[2] = SubSeq(s, i, i + 2))[1]
        ELSE IF EscapeAt(s, i - 1) \/ EscapeAt(s, i - 2) THEN ""
        ELSE Char(s, i)])

SchemeChars == Letters \cup Digits \cup {"+", "-", "."}

\* the scheme urlparse finds: the text before the first ':' when it is made of
\* scheme characters and starts with a letter, "" otherwise
Scheme(u) ==
    LET c == IndexOf(u, ":", 1)
    IN  IF c > 1 /\ Char(u, 1) \in Letters /\ \A i \in 1..(c - 1) : Char(u, i) \in SchemeChars
        THEN SubSeq(u, 1, c - 1) ELSE ""

\* u without its scheme and ':'
AfterScheme(u) == IF Scheme(u) = "" THEN u ELSE SubSeq(u, Len(Scheme(u)) + 2, Len(u))

\* the end of the netloc of "//netloc...": the first of '/', '?', '#' after it
NetlocEnd(r) ==
    LET E == {i \in 3..Len(r) : Char(r, i) \in {"/", "?", "#"}}
    IN  IF E = {} THEN Len(r) ELSE Min(E) - 1

\* urlparse(u).netloc
Netloc(u) ==
    LET r == AfterScheme(u)
    IN  IF StartsWith(r, "//") THEN SubSeq(r, 3, NetlocEnd(r)) ELSE ""

\* urlparse(u).path
UrlPath(u) ==
    LET r == AfterScheme(u)
        p == IF StartsWith(r, "//") THEN SubSeq(r, NetlocEnd(r) + 1, Len(r)) ELSE r
        E == {i \in 1..Len(p) : Char(p, i) \in {"?", "#"}}
    IN  IF E = {} THEN p ELSE SubSeq(p, 1, Min(E) - 1)

\* scheme://netloc of u
UrlOrigin(u) == Scheme(u) \o "://" \o Netloc(u)

\* urljoin(base, ref) for a base with a scheme and a netloc; the references
\* drawn hold no "." or ".." segment
urljoin(base, ref) ==
    IF ref = "" THEN base
    ELSE IF Scheme(ref) # "" THEN ref
    ELSE IF StartsWith(ref, "//") THEN Scheme(base) \o ":" \o ref
    ELSE IF StartsWith(ref, "/") THEN UrlOrigin(base) \o ref
    ELSE IF StartsWith(ref, "?") THEN UrlOrigin(base) \o UrlPath(base) \o ref
    ELSE LET path == UrlPath(base)
             dir  == SubSeq(path, 1, LastIndexOf(path, "/"))
         IN  UrlOrigin(base) \o (IF dir = "" THEN "/" ELSE dir) \o ref

-----------------------------------------------------------------------------
(* The manifest rewriter *)

\* str(request.base_url).rstrip("/")
ServiceBase == "http://svc"

proxy_url(target_url) == ServiceBase \o "/proxy?url=" \o quote(target_url)

\* the replacement of one URI="..." match, its group being uri
replace_uri(uri, base) == "URI=\"" \o proxy_url(urljoin(base, uri)) \o "\""

\* the positions of a line where r'URI="([^"]+)"' matches: URI=" followed by
\* at least one character other than '"' and then a '"'
URIMatchStarts(line) ==
    {i \in 1..Len(line) :
        StartsWithAt(line, "URI=\"", i) /\ IndexOf(line, "\"", i + 5) > i + 5}

RECURSIVE ReSubFrom(_, _, _)
\* re.sub(r'URI="([^"]+)"', replace_uri, line) from position i on: the matches
\* are taken leftmost first and do not overlap
ReSubFrom(line, i, base) ==
    LET M == {m \in URIMatchStarts(line) : m >= i}
    IN  IF M = {} THEN SubSeq(line, i, Len(line))
        ELSE LET m == Min(M)
                 q == IndexOf(line, "\"", m + 5)
             IN  SubSeq(line, i, m - 1)
                    \o replace_uri(SubSeq(line, m + 5, q - 1), base)
                    \o ReSubFrom(line, q + 1, base)

\* rewrite_line with the bare references left unresolved against the base
rewrite_line_unresolved(line, base) ==
    IF strip(line) = "" THEN line
    ELSE IF ~StartsWith(strip(line), "#") THEN proxy_url(strip(line))
    ELSE ReSubFrom(line, 1, base)

\* the body of the loop of rewrite_m3u8: what is appended to out for one line
rewrite_line(line, base) ==
    IF strip(line) = "" THEN line
    ELSE IF ~StartsWith(strip(line), "#") THEN proxy_url(urljoin(base, strip(line)))
    ELSE ReSubFrom(line, 1, base)

rewrite_m3u8(text, base) ==
    LET lines == splitlines(text)
    IN  join("\n", [i \in 1..Len(lines) |-> rewrite_line(lines[i], base)])

-----------------------------------------------------------------------------
(* Formats of an extraction result and the variant selection *)

\* one entry of info["formats"]; a missing or None field is 0, "" or "none"
Format(id, h, tbr, vcodec, url, protocol) ==
    [format_id |-> id, height |-> h, width |-> 0, fps |-> 0, tbr |-> tbr,
     vcodec |-> vcodec, url |-> url, protocol |-> protocol]

NoFormat == Format("", 0, 0, "none", "", "")

\* f.get("vcodec") not in ("none", None)
HasVideo(f) == f.vcodec # "none"

\* [f for f in formats if f.get("vcodec") not in ("none", None) and f.get("url")]
PlayableFormats(formats) == SelectSeq(formats, LAMBDA f : HasVideo(f) /\ f.url # "")

Abs(n) == IF n < 0 THEN -n ELSE n

DigitValue(c) == CHOOSE v \in 0..9 : Char("0123456789", v + 1) = c

RECURSIVE DigitsValue(_)
DigitsValue(s) ==
    IF s = "" THEN 0
    ELSE 10 * DigitsValue(SubSeq(s, 1, Len(s) - 1)) + DigitValue(Char(s, Len(s)))

\* s without a leading sign
Unsigned(s) == IF StartsWith(s, "-") \/ StartsWith(s, "+") THEN SubSeq(s, 2, Len(s)) ELSE s

\* int(q) does not raise ValueError: optional blanks, an optional sign, digits
IsIntLiteral(q) ==
    LET u == Unsigned(strip(q))
    IN  u # "" /\ \A i \in 1..Len(u) : Char(u, i) \in Digits

\* int(q)
IntValue(q) ==
    LET v == DigitsValue(Unsigned(strip(q)))
    IN  IF StartsWith(strip(q), "-") THEN -v ELSE v

\* where list.sort puts x into a sorted list: before x when keys are equal
InsertBeforeEqual(sorted, x) ==
    LET n == Cardinality({i \in 1..Len(sorted) : sorted[i].k < x.k})
    IN  SubSeq(sorted, 1, n) \o <<x>> \o SubSeq(sorted, n + 1, Len(sorted))

\* x put into a list sorted by k, after the elements whose key is not larger:
\* elements with equal keys keep the order they came in
InsertSorted(sorted, x) ==
    LET n == Cardinality({i \in 1..Len(sorted) : sorted[i].k <= x.k})
    IN  SubSeq(sorted, 1, n) \o <<x>> \o SubSeq(sorted, n + 1, Len(sorted))

RECURSIVE StableSort(_)
\* list.sort on [k, v] pairs by k: ascending and stable
StableSort(pairs) ==
    IF pairs = <<>> THEN <<>>
    ELSE InsertSorted(StableSort(SubSeq(pairs, 1, Len(pairs) - 1)), pairs[Len(pairs)])

\* vf.sort(key=..., reverse=...) with keys[i] the key of vf[i]; a reverse sort
\* also keeps the order of elements with equal keys
SortedBy(vf, keys, reverse) ==
    LET pairs == [i \in 1..Len(vf) |-> [k |-> IF reverse THEN -keys[i] ELSE keys[i], v |-> vf[i]]]
        sorted == StableSort(pairs)
    IN  [i \in 1..Len(vf) |-> sorted[i].v]

\* x.get("height", 0) or 0
HeightKey(f) == f.height

\* the selection with `best` sorted like `worst`
sort_by_quality_ascending(vf, quality) ==
    IF quality \notin {"best", "worst"} /\ IsIntLiteral(quality)
    THEN SortedBy(vf, [i \in 1..Len(vf) |-> Abs(HeightKey(vf[i]) - IntValue(quality))], FALSE)
    ELSE SortedBy(vf, [i \in 1..Len(vf) |-> HeightKey(vf[i])], FALSE)

\* the sort of the playable formats by the requested quality
sort_by_quality(vf, quality) ==
    IF quality = "best"
    THEN SortedBy(vf, [i \in 1..Len(vf) |-> HeightKey(vf[i])], TRUE)
    ELSE IF quality = "worst"
    THEN SortedBy(vf, [i \in 1..Len(vf) |-> HeightKey(vf[i])], FALSE)
    ELSE IF IsIntLiteral(quality)
    THEN SortedBy(vf, [i \in 1..Len(vf) |-> Abs(HeightKey(vf[i]) - IntValue(quality))], FALSE)
    ELSE SortedBy(vf, [i \in 1..Len(vf) |-> HeightKey(vf[i])], TRUE)

-----------------------------------------------------------------------------
(* The playlist builders *)

\* sorted_formats[:8]
MasterCap == 8

\* f.get("tbr") or 1000
DefaultTbr == 1000

\* f.get("fps") or 30
DefaultFps == 30

\* the formats a master playlist is built from
MasterFormats(formats) ==
    SelectSeq(formats, LAMBDA f : HasVideo(f) /\ f.height # 0 /\ f.url # "")

\* by_height after one more format, the lower bitrate replacing the entry
ByHeightStepLowest(d, f) ==
    IF f.height \notin DOMAIN d \/ f.tbr < d[f.height].tbr
    THEN [h \in DOMAIN d \cup {f.height} |-> IF h = f.height THEN f ELSE d[h]]
    ELSE d

\* by_height after one more format f of the loop
ByHeightStep(d, f) ==
    IF f.height \notin DOMAIN d \/ f.tbr > d[f.height].tbr
    THEN [h \in DOMAIN d \cup {f.height} |-> IF h = f.height THEN f ELSE d[h]]
    ELSE d

RECURSIVE ByHeight(_, _)
\* by_height after the first n formats of vf
ByHeight(vf, n) ==
    IF n = 0 THEN [h \in {} |-> NoFormat]
    ELSE ByHeightStep(ByHeight(vf, n - 1), vf[n])

\* sorted(by_height.values(), key=height, reverse=True): the heights are the
\* keys of the dict, so no two values have the same one
SortedByHeightDesc(d) ==
    LET H == DOMAIN d
        n == Cardinality(H)
    IN  [i \in 1..n |-> d[Nth(H, n + 1 - i)]]

\* one #EXT-X-STREAM-INF entry and the sub-playlist it points to
StreamEntry(f) ==
    [height    |-> f.height,
     width     |-> IF f.width # 0 THEN f.width ELSE (f.height * 16) \div 9,
     bandwidth |-> (IF f.tbr # 0 THEN f.tbr ELSE DefaultTbr) * 1000,
     fps       |-> IF f.fps # 0 THEN f.fps ELSE DefaultFps,
     format_id |-> f.format_id]

\* the entries of the master playlist of build_master_m3u8_from_formats, for
\* a format list with at least one master format
build_master_m3u8_from_formats(formats) ==
    LET video_formats == MasterFormats(formats)
        sorted_formats == SortedByHeightDesc(ByHeight(video_formats, Len(video_formats)))
        n == IF Len(sorted_formats) < MasterCap THEN Len(sorted_formats) ELSE MasterCap
    IN  [i \in 1..n |-> StreamEntry(sorted_formats[i])]

\* duration in tenths of a second: int(duration)
IntOfDuration(tenths) == tenths \div 10

\* the single-segment playlist of build_single_m3u8
build_single_m3u8(stream_url, duration) ==
    [version |-> 3, targetduration |-> IntOfDuration(duration) + 1, media_sequence |-> 0,
     playlist_type |-> "VOD", extinf |-> duration, segments |-> <<proxy_url(stream_url)>>,
     endlist |-> TRUE]

NoMedia ==
    [version |-> 0, targetduration |-> 0, media_sequence |-> 0,
     playlist_type |-> "", extinf |-> 0, segments |-> <<>>, endlist |-> FALSE]

-----------------------------------------------------------------------------
(* The state outside a request *)

NoInfo == [formats |-> <<>>, is_live |-> FALSE, live_status |-> "not_live", duration |-> 0]

NoOrigin == [manifest_ok |-> FALSE, manifest |-> "", segment_ok |-> FALSE]

NoRequest == [endpoint |-> "none"]

NoResponse == [status |-> 0, form |-> "none"]

-----------------------------------------------------------------------------
(* Requests, responses and the shared-secret gate *)

\* the request: X-API-Key header, api_key query parameter ("" when absent)
\* and the parameters of the endpoint
Request(endpoint, cred, quality, url, format_id) ==
    [endpoint |-> endpoint, header_key |-> cred[1], query_key |-> cred[2],
     quality |-> quality, url |-> url, format_id |-> format_id]

\* a response: its status, what it is ("error", "master", "single_entry_master",
\* "single", "rewritten", "bytes", "aborted", "json"), its media type, and its
\* content by form
Response(status, form, media_type, chosen, entries, media, body) ==
    [status |-> status, form |-> form, media_type |-> media_type, chosen |-> chosen,
     entries |-> entries, media |-> media, body |-> body]

\* raise HTTPException(status, ...)
ErrorResponse(status) == Response(status, "error", "application/json", NoFormat, <<>>, NoMedia, "")

MpegUrl == "application/vnd.apple.mpegurl"

\* request.headers.get("X-API-Key") or request.query_params.get("api_key")
PresentedKey(cred) == IF cred[1] # "" THEN cred[1] ELSE cred[2]

\* check_key returns instead of raising 401
check_key(cred) == API_KEY = "" \/ PresentedKey(cred) = API_KEY

\* an outbound call of a request (an extraction, a manifest fetch, a segment
\* fetch) and whether it returned
Call(kind, ok) == [call |-> kind, ok |-> ok]

\* what extract_info does: it returns the video's info or raises
Extracted(i) == [ok |-> TRUE, err |-> "", info |-> i]

ExtractionFailures ==
    {[ok |-> FALSE, err |-> "DownloadError", info |-> NoInfo],
     [ok |-> FALSE, err |-> "Exception", info |-> NoInfo]}

HlsProtocols == {"m3u8", "m3u8_native"}

-----------------------------------------------------------------------------
(* GET /api/m3u8 and GET /api/stream-url *)

\* is_live of get_m3u8, from the is_live flag alone
IsLiveFlagOnly(i) == i.is_live

\* is_live of get_m3u8
IsLiveM3u8(i) == i.is_live \/ i.live_status \in {"is_live", "is_upcoming"}

\* the single-entry master that points to the sub-playlist of an HLS format
SingleEntry(f) ==
    [height    |-> f.height,
     width     |-> IF f.width # 0 THEN f.width ELSE (f.height * 16) \div 9,
     bandwidth |-> (IF f.tbr # 0 THEN f.tbr ELSE DefaultTbr) * 1000,
     fps       |-> 0,
     format_id |-> f.format_id]

\* the response of get_m3u8 once the extraction has returned i
m3u8_response(i, quality) ==
    IF quality = "master" \/ IsLiveM3u8(i)
    THEN IF MasterFormats(i.formats) = <<>> THEN ErrorResponse(404)
         ELSE Response(200, "master", MpegUrl, NoFormat,
                       build_master_m3u8_from_formats(i.formats), NoMedia, "")
    ELSE LET vf == PlayableFormats(i.formats)
         IN  IF vf = <<>> THEN ErrorResponse(404)
             ELSE LET chosen == sort_by_quality(vf, quality)[1]
                  IN  IF chosen.protocol \in HlsProtocols
                      THEN Response(200, "single_entry_master", MpegUrl, chosen,
                                    <<SingleEntry(chosen)>>, NoMedia, "")
                      ELSE Response(200, "single", MpegUrl, chosen, <<>>,
                                    build_single_m3u8(chosen.url, i.duration), "")

GetM3u8(cred, quality, x) ==
    /\ pc = "start"
    /\ pc' = "done"
    /\ req' = Request("m3u8", cred, quality, "", "")
    /\ IF ~check_key(cred)
       THEN /\ resp' = ErrorResponse(401)
            /\ UNCHANGED <<info, outbound>>
       ELSE /\ outbound' = <<Call("extract", x.ok)>>
            /\ info' = x.info
            /\ resp' = IF x.ok THEN m3u8_response(x.info, quality)
                       ELSE ErrorResponse(IF x.err = "DownloadError" THEN 400 ELSE 500)
    /\ UNCHANGED <<content, base_url, rewritten, API_KEY, origin>>
    /\ UNCHANGED cookie_vars

\* the response of get_stream_url once the extraction has returned i
stream_url_response(i, quality) ==
    LET vf == PlayableFormats(i.formats)
    IN  IF vf = <<>> THEN ErrorResponse(404)
        ELSE Response(200, "json", "application/json", sort_by_quality(vf, quality)[1], <<>>, NoMedia, "")

GetStreamUrl(cred, quality, x) ==
    /\ pc = "start"
    /\ pc' = "done"
    /\ req' = Request("stream-url", cred, quality, "", "")
    /\ IF ~check_key(cred)
       THEN /\ resp' = ErrorResponse(401)
            /\ UNCHANGED <<info, outbound>>
       ELSE /\ outbound' = <<Call("extract", x.ok)>>
            /\ info' = x.info
            /\ resp' = IF x.ok THEN stream_url_response(x.info, quality)
                       ELSE ErrorResponse(IF x.err = "DownloadError" THEN 400 ELSE 500)
    /\ UNCHANGED <<content, base_url, rewritten, API_KEY, origin>>
    /\ UNCHANGED cookie_vars

\* no request served yet, under the shared secret key
Idle(key) ==
    /\ pc = "start"
    /\ content = ""
    /\ base_url = ""
    /\ rewritten = ""
    /\ API_KEY = key
    /\ info = NoInfo
    /\ origin = NoOrigin
    /\ req = NoRequest
    /\ resp = NoResponse
    /\ outbound = <<>>
    /\ CookiesAtRest

-----------------------------------------------------------------------------
(* The variant selection on the videos drawn *)

\* the format_id of the i-th format of a video
FormatId(i) == Char("abcdefghijklmnopqrstuvwxyz", i)

OriginUrl(id) == "https://r.googlevideo.com/v/" \o id

\* a format with video, an audio-only format, a format without a URL
FormatKinds == {"video", "audio", "nourl"}

Shapes == [height : 0..MaxHeight, tbr : 0..MaxTbr, kind : FormatKinds, protocol : {"https"}]

\* the formats of the shapes, the i-th with format_id FormatId(i)
MakeFormats(shapes) ==
    [i \in 1..Len(shapes) |->
        Format(FormatId(i), shapes[i].height, shapes[i].tbr,
               IF shapes[i].kind = "audio" THEN "none" ELSE "avc1",
               IF shapes[i].kind = "nourl" THEN "" ELSE OriginUrl(FormatId(i)),
               shapes[i].protocol)]

Video(formats, is_live, live_status, duration) ==
    [formats |-> formats, is_live |-> is_live, live_status |-> live_status,
     duration |-> duration]

SelectVideos ==
    {Video(MakeFormats(shapes), FALSE, "not_live", 0) :
        shapes \in UNION {[1..n -> {sh \in Shapes : sh.tbr = 0}] : n \in 0..MaxFormats}}

\* best, worst, a word that is no number, and literal heights
SelectQualities == {"best", "worst", "hd", "1", "2", "-1"}

NoCredentials == <<"", "">>

\* the video is drawn at the start and the requests are served on it
InitSelect ==
    /\ pc = "start"
    /\ content = ""
    /\ base_url = ""
    /\ rewritten = ""
    /\ API_KEY = ""
    /\ info \in SelectVideos
    /\ origin = NoOrigin
    /\ req = NoRequest
    /\ resp = NoResponse
    /\ outbound = <<>>
    /\ CookiesAtRest

NextSelect ==
    \/ \E q \in SelectQualities : GetM3u8(NoCredentials, q, Extracted(info))
    \/ \E q \in SelectQualities : GetStreamUrl(NoCredentials, q, Extracted(info))

SpecSelect == InitSelect /\ [][NextSelect]_vars

\* the eligible variants: a video track and a non-empty origin URL
Eligible(formats) ==
    {i \in 1..Len(formats) : formats[i].vcodec # "none" /\ formats[i].url # ""}

Selecting == pc = "done" /\ req.endpoint \in {"m3u8", "stream-url"} /\ Eligible(info.formats) # {}

(* C1: with at least one eligible variant, `best` selects an eligible      *)
(* variant whose height is the largest among the eligible variants, and    *)
(* `worst` one whose height is the smallest.                               *)
C1_BestWorstExtreme ==
    (Selecting /\ req.quality \in {"best", "worst"}) =>
        /\ resp.status = 200
        /\ \E i \in Eligible(info.formats) :
              /\ resp.chosen = info.formats[i]
              /\ \A j \in Eligible(info.formats) :
                    IF req.quality = "best"
                    THEN info.formats[j].height <= info.formats[i].height
                    ELSE info.formats[j].height >= info.formats[i].height

\* `best` has selected the higher of two eligible variants that came lower first
C1_Witness ==
    /\ Selecting /\ req.quality = "best"
    /\ \E i, j \in Eligible(info.formats) :
          /\ i < j /\ info.formats[i].height < info.formats[j].height
          /\ resp.chosen = info.formats[j]
    /\ \E k \in 1..Len(info.formats) : k \notin Eligible(info.formats)

\* the distance of the i-th format's height from the literal target
Distance(i) == Abs(info.formats[i].height - IntValue(req.quality))

(* C2: for a literal integer target t the selected variant minimizes       *)
(* |height - t| over the eligible variants, and among equidistant eligible *)
(* variants it is the one that comes first in the input list.              *)
C2_NearestFirst ==
    (Selecting /\ IsIntLiteral(req.quality)) =>
        /\ resp.status = 200
        /\ \E i \in Eligible(info.formats) :
              /\ resp.chosen = info.formats[i]
              /\ \A j \in Eligible(info.formats) :
                    /\ Distance(i) <= Distance(j)
                    /\ Distance(j) = Distance(i) => i <= j

\* two eligible variants of different heights are equidistant from the target
\* and nearest to it, and the first of them has been selected
C2_Witness ==
    /\ Selecting /\ IsIntLiteral(req.quality)
    /\ \E i, j \in Eligible(info.formats) :
          /\ i < j /\ info.formats[i].height # info.formats[j].height
          /\ Distance(i) = Distance(j)
          /\ \A k \in Eligible(info.formats) : Distance(i) <= Distance(k)
          /\ resp.chosen = info.formats[i]

-----------------------------------------------------------------------------
(* The master playlist on the videos drawn *)

\* n formats with video of heights 1..n, ascending or descending, the
\* bitrates alternating
Ladder(n, ascending) ==
    [i \in 1..n |-> [height |-> IF ascending THEN i ELSE n + 1 - i,
                     tbr |-> i % (MaxTbr + 1), kind |-> "video", protocol |-> "https"]]

MasterVideos ==
    {Video(MakeFormats(IF front THEN tail \o Ladder(n, asc) ELSE Ladder(n, asc) \o tail),
           FALSE, "not_live", 0) :
        n \in 0..MaxLadder, asc \in BOOLEAN, front \in BOOLEAN,
        tail \in UNION {[1..k -> Shapes] : k \in 0..MaxTail}}

InitMaster ==
    /\ pc = "start"
    /\ content = ""
    /\ base_url = ""
    /\ rewritten = ""
    /\ API_KEY = ""
    /\ info \in MasterVideos
    /\ origin = NoOrigin
    /\ req = NoRequest
    /\ resp = NoResponse
    /\ outbound = <<>>
    /\ CookiesAtRest

NextMaster == GetM3u8(NoCredentials, "master", Extracted(info))

SpecMaster == InitMaster /\ [][NextMaster]_vars

\* the eligible variants of height h
EligibleOfHeight(h) == {i \in Eligible(info.formats) : info.formats[i].height = h}

(* C3: the master playlist holds at most 8 stream entries, their heights   *)
(* are strictly descending, and the entry of a height is the variant with  *)
(* the highest average bitrate among the eligible variants of that height. *)
C3_MasterPlaylist ==
    (pc = "done" /\ resp.form = "master") =>
        /\ Len(resp.entries) <= 8
        /\ \A k \in 1..(Len(resp.entries) - 1) :
              resp.entries[k].height > resp.entries[k + 1].height
        /\ \A k \in 1..Len(resp.entries) :
              \E i \in EligibleOfHeight(resp.entries[k].height) :
                  /\ info.formats[i].format_id = resp.entries[k].format_id
                  /\ \A j \in EligibleOfHeight(resp.entries[k].height) :
                        info.formats[j].tbr <= info.formats[i].tbr

\* a master playlist of 8 entries for a video with more than 8 heights, one of
\* them with two eligible variants of different bitrates, the lower one first
C3_Witness ==
    /\ pc = "done" /\ resp.form = "master"
    /\ Len(resp.entries) = 8
    /\ Cardinality({info.formats[i].height : i \in Eligible(info.formats)} \ {0}) > 8
    /\ \E i, j \in Eligible(info.formats) :
          /\ i < j
          /\ info.formats[i].height = info.formats[j].height
          /\ info.formats[i].tbr < info.formats[j].tbr
          /\ \E k \in 1..Len(resp.entries) :
                resp.entries[k].format_id = info.formats[j].format_id

-----------------------------------------------------------------------------
(* rewrite_m3u8 on the manifests drawn *)

\* the lines manifests are made of: blank lines, tags with and without a URI
\* attribute, relative, rooted and absolute references, numbered segments
ManifestLines ==
    {"", "  ", "#EXTM3U", "\t#EXTINF:4,",
     "#EXT-X-KEY:METHOD=AES-128,URI=\"key.bin\"",
     "#EXT-X-MAP:URI=\"\"",
     "seg.ts", " /v/sq/482/seg.ts",
     "https://r.googlevideo.com/sq/7/s.ts"}

Terminators == {"\n", "\r\n"}

\* the lines joined by the terminator, with or without one after the last line
Compose(ls, term, final) == join(term, ls) \o (IF final THEN term ELSE "")

Manifests ==
    {Compose(ls, t, f) :
        ls \in UNION {[1..n -> ManifestLines] : n \in 0..MaxLines},
        t \in Terminators, f \in BOOLEAN}

ManifestUrls ==
    {"https://m.googlevideo.com/hls/v1/index.m3u8",
     "https://m.googlevideo.com/pl.m3u8?x=1"}

InitRewrite ==
    /\ pc = "start"
    /\ content \in Manifests
    /\ base_url \in ManifestUrls
    /\ rewritten = ""
    /\ API_KEY = ""
    /\ info = NoInfo
    /\ origin = NoOrigin
    /\ req = NoRequest
    /\ resp = NoResponse
    /\ outbound = <<>>
    /\ CookiesAtRest

RewriteM3u8 ==
    /\ pc = "start"
    /\ rewritten' = rewrite_m3u8(content, base_url)
    /\ pc' = "done"
    /\ UNCHANGED <<content, base_url, API_KEY, info, origin, req, resp, outbound>>
    /\ UNCHANGED cookie_vars

NextRewrite == RewriteM3u8

SpecRewrite == InitRewrite /\ [][NextRewrite]_vars

-----------------------------------------------------------------------------
(* Reading a manifest: what a line is, and the URI attributes it carries *)

IsBlank(line) == strip(line) = ""

IsTag(line) == StartsWith(strip(line), "#")

IsBare(line) == ~IsBlank(line) /\ ~IsTag(line)

RECURSIVE URIValuesFrom(_, _)
\* the values of the URI="..." attributes of a line, left to right
URIValuesFrom(line, i) ==
    LET M == {m \in URIMatchStarts(line) : m >= i}
    IN  IF M = {} THEN <<>>
        ELSE LET q == IndexOf(line, "\"", Min(M) + 5)
             IN  <<SubSeq(line, Min(M) + 5, q - 1)>> \o URIValuesFrom(line, q + 1)

URIValues(line) == URIValuesFrom(line, 1)

ProxyPrefix == ServiceBase \o "/proxy?url="

IsProxyLink(s) == StartsWith(s, ProxyPrefix)

\* the URL a proxy link leads to
LinkTarget(s) == unquote(SubSeq(s, Len(ProxyPrefix) + 1, Len(s)))

\* the proxy link to ref resolved against base: its target is absolute
IsProxyLinkTo(s, base, ref) ==
    /\ IsProxyLink(s)
    /\ LinkTarget(s) = urljoin(base, ref)
    /\ Scheme(LinkTarget(s)) # ""
    /\ ~Contains(SubSeq(s, Len(ProxyPrefix) + 1, Len(s)), "/")

InLines == splitlines(content)

OutLines == splitlines(rewritten)

-----------------------------------------------------------------------------
(* C7: rewrite_m3u8 preserves line structure: the output has as many lines *)
(* as the input, in the same order, and every blank line and every tag     *)
(* line without a URI="..." attribute is in the output verbatim at its     *)
(* position.                                                               *)
C7_LineStructurePreserved ==
    pc = "done" =>
        /\ Len(OutLines) = Len(InLines)
        /\ \A i \in 1..Len(InLines) :
              (IsBlank(InLines[i]) \/ (IsTag(InLines[i]) /\ URIValues(InLines[i]) = <<>>))
                  => (i <= Len(OutLines) /\ OutLines[i] = InLines[i])

(* C8: rewrite_m3u8 replaces every non-blank line that is no tag by the    *)
(* proxy link to the line's reference resolved against the base URL, and   *)
(* the value of every URI="..." attribute by such a link, still quoted; no *)
(* bare line and no URI attribute of the output is anything but a proxy    *)
(* link.                                                                   *)
C8_ReferencesProxied ==
    pc = "done" =>
        /\ \A i \in 1..Len(InLines) :
              IsBare(InLines[i]) =>
                  /\ i <= Len(OutLines)
                  /\ IsProxyLinkTo(OutLines[i], base_url, strip(InLines[i]))
        /\ \A i \in 1..Len(InLines) :
              IsTag(InLines[i]) =>
                  /\ i <= Len(OutLines)
                  /\ Len(URIValues(OutLines[i])) = Len(URIValues(InLines[i]))
                  /\ \A k \in 1..Len(URIValues(InLines[i])) :
                        IsProxyLinkTo(URIValues(OutLines[i])[k], base_url, URIValues(InLines[i])[k])
        /\ \A j \in 1..Len(OutLines) :
              /\ IsBare(OutLines[j]) => IsProxyLink(OutLines[j])
              /\ \A k \in 1..Len(URIValues(OutLines[j])) : IsProxyLink(URIValues(OutLines[j])[k])

\* a rewritten manifest with a relative bare reference and a tag that carries a
\* relative URI attribute
C8_Witness ==
    /\ pc = "done"
    /\ \E i \in 1..Len(InLines) :
          /\ IsBare(InLines[i]) /\ Scheme(strip(InLines[i])) = ""
          /\ i <= Len(OutLines) /\ IsProxyLink(OutLines[i])
    /\ \E i \in 1..Len(InLines) :
          /\ IsTag(InLines[i]) /\ URIValues(InLines[i]) # <<>>
          /\ i <= Len(OutLines) /\ URIValues(OutLines[i]) # <<>>

-----------------------------------------------------------------------------
(* GET /api/subplaylist *)

\* what the origin answers to a manifest or a segment fetch
Origin(manifest_ok, manifest, segment_ok) ==
    [manifest_ok |-> manifest_ok, manifest |-> manifest, segment_ok |-> segment_ok]

\* is_live of subplaylist; the handler computes it and never reads it
IsLiveSub(i) == i.is_live \/ i.live_status = "is_live"

\* matched of subplaylist: the formats of the requested format_id that have a
\* URL, else the playable formats by descending height
MatchedFormats(formats, format_id) ==
    LET matched == SelectSeq(formats, LAMBDA f : f.format_id = format_id /\ f.url # "")
        vf == PlayableFormats(formats)
    IN  IF matched # <<>> THEN matched
        ELSE SortedBy(vf, [i \in 1..Len(vf) |-> HeightKey(vf[i])], TRUE)

\* subplaylist fetches the manifest of the chosen format
FetchesManifest(chosen) == chosen.protocol \in HlsProtocols /\ chosen.url # ""

\* the response of subplaylist once the extraction has returned i, the origin
\* answering o to the manifest fetch
subplaylist_response(i, format_id, o) ==
    LET matched == MatchedFormats(i.formats, format_id)
    IN  IF matched = <<>> THEN ErrorResponse(404)
        ELSE LET chosen == matched[1]
             IN  IF FetchesManifest(chosen) /\ o.manifest_ok
                 THEN Response(200, "rewritten", MpegUrl, chosen, <<>>, NoMedia,
                               rewrite_m3u8(o.manifest, chosen.url))
                 ELSE Response(200, "single", MpegUrl, chosen, <<>>,
                               build_single_m3u8(chosen.url, i.duration), "")

Subplaylist(cred, format_id, x, o) ==
    /\ pc = "start"
    /\ pc' = "done"
    /\ req' = Request("subplaylist", cred, "", "", format_id)
    /\ info' = x.info
    /\ IF ~x.ok
       THEN /\ resp' = ErrorResponse(400)
            /\ outbound' = <<Call("extract", FALSE)>>
            /\ UNCHANGED origin
       ELSE LET matched == MatchedFormats(x.info.formats, format_id)
                fetches == matched # <<>> /\ FetchesManifest(matched[1])
            IN  /\ resp' = subplaylist_response(x.info, format_id, o)
                /\ outbound' = IF fetches
                               THEN <<Call("extract", TRUE), Call("manifest", o.manifest_ok)>>
                               ELSE <<Call("extract", TRUE)>>
                /\ origin' = IF fetches THEN o ELSE origin
    /\ UNCHANGED <<content, base_url, rewritten, API_KEY>>
    /\ UNCHANGED cookie_vars

-----------------------------------------------------------------------------
(* GET /proxy *)

ALLOWED_PROXY_HOSTS ==
    {"googlevideo.com", "manifest.googlevideo.com",
     "rr1---sn", "rr2---sn", "rr3---sn", "rr4---sn", "rr5---sn",
     "googleusercontent.com", "youtube.com", "ytimg.com"}

UpperCase == "ABCDEFGHIJKLMNOPQRSTUVWXYZ"

LowerChar(c) ==
    IF Contains(UpperCase, c) /\ c # ""
    THEN Char("abcdefghijklmnopqrstuvwxyz", IndexOf(UpperCase, c, 1))
    ELSE c

\* str.lower()
Lower(s) == Concat([i \in 1..Len(s) |-> LowerChar(Char(s, i))])

\* any(allowed in host for allowed in ALLOWED_PROXY_HOSTS)
HostAllowed(host) == \E allowed \in ALLOWED_PROXY_HOSTS : Contains(host, allowed)

\* is_segment of proxy_endpoint
IsSegmentPath(path_lower) ==
    \/ Contains(path_lower, "/sq/")
    \/ EndsWith(path_lower, ".ts")
    \/ EndsWith(path_lower, ".aac")
    \/ EndsWith(path_lower, ".m4s")

\* is_m3u8 of proxy_endpoint, by the manifest markers anywhere in the path
IsM3u8PathBySubstring(path_lower) ==
    \/ Contains(path_lower, ".m3u8")
    \/ Contains(path_lower, "/hls_playlist/")
    \/ Contains(path_lower, "/hls_manifest/")

\* is_m3u8 of proxy_endpoint
IsM3u8Path(path_lower) ==
    /\ ~IsSegmentPath(path_lower)
    /\ \/ EndsWith(path_lower, ".m3u8")
       \/ EndsWith(path_lower, "index.m3u8")
       \/ Contains(path_lower, "/hls_playlist/") /\ ~IsSegmentPath(path_lower)
       \/ Contains(path_lower, "/hls_manifest/") /\ ~IsSegmentPath(path_lower)

\* ct of proxy_endpoint
SegmentMediaType(path_lower) ==
    IF EndsWith(path_lower, ".ts") \/ Contains(path_lower, "/seg.ts") \/ Contains(path_lower, "/sq/")
    THEN "video/mp2t"
    ELSE IF EndsWith(path_lower, ".m4s") \/ EndsWith(path_lower, ".mp4") THEN "video/mp4"
    ELSE IF EndsWith(path_lower, ".aac") THEN "audio/aac"
    ELSE "application/octet-stream"

\* the response of proxy_endpoint to an allowed target, the origin answering o.
\* A segment fetch that fails raises inside the streamed body, after the
\* status line of the response has been sent.
proxy_response(target, o) ==
    LET path_lower == Lower(UrlPath(target))
    IN  IF IsM3u8Path(path_lower)
        THEN IF o.manifest_ok
             THEN Response(200, "rewritten", MpegUrl, NoFormat, <<>>, NoMedia,
                           rewrite_m3u8(o.manifest, target))
             ELSE ErrorResponse(502)
        ELSE Response(200, IF o.segment_ok THEN "bytes" ELSE "aborted",
                      SegmentMediaType(path_lower), NoFormat, <<>>, NoMedia, "")

Proxy(cred, url, o) ==
    LET target == unquote(url)
        host == Netloc(target)
    IN  /\ pc = "start"
        /\ pc' = "done"
        /\ req' = Request("proxy", cred, "", url, "")
        /\ IF ~HostAllowed(host)
           THEN /\ resp' = ErrorResponse(403)
                /\ UNCHANGED <<origin, outbound>>
           ELSE /\ resp' = proxy_response(target, o)
                /\ origin' = o
                /\ outbound' = IF IsM3u8Path(Lower(UrlPath(target)))
                               THEN <<Call("manifest", o.manifest_ok)>>
                               ELSE <<Call("segment", o.segment_ok)>>
        /\ UNCHANGED <<content, base_url, rewritten, API_KEY, info>>
        /\ UNCHANGED cookie_vars

-----------------------------------------------------------------------------
(* The server: one request, drawn with what the extraction and the origin  *)
(* answer to it                                                            *)

\* the configured secret, if any
Secrets == {"", "s3cret"}

\* (X-API-Key header, api_key query parameter) of a request
Credentials == {<<"", "">>, <<"s3cret", "">>, <<"", "s3cret">>, <<"wrong", "">>}

\* a progressive format, an HLS format, an audio-only format, an HLS format
\* without height
ServerShapes ==
    {[height |-> 1, tbr |-> 0, kind |-> "video", protocol |-> "https"],
     [height |-> 2, tbr |-> 1, kind |-> "video", protocol |-> "m3u8_native"],
     [height |-> 0, tbr |-> 0, kind |-> "audio", protocol |-> "https"],
     [height |-> 0, tbr |-> 1, kind |-> "video", protocol |-> "m3u8"]}

\* (is_live, live_status) of a video on demand, of a live video with and
\* without the is_live flag, of an upcoming one
Liveness == {<<FALSE, "not_live">>, <<TRUE, "is_live">>, <<FALSE, "is_live">>,
             <<FALSE, "is_upcoming">>}

\* videos of 1.5 s (the duration is in tenths of a second)
ServerVideos ==
    {Video(MakeFormats(shapes), live[1], live[2], 15) :
        shapes \in UNION {[1..n -> ServerShapes] : n \in 0..MaxServerFormats},
        live \in Liveness}

Extractions == ExtractionFailures \cup {Extracted(v) : v \in ServerVideos}

ServerQualities == {"best", "worst", "master", "2"}

\* the format_id of a sub-playlist request: of the first or second format, or
\* of none
ServerFormatIds == {"a", "b", "zz"}

\* the manifest of a live HLS format: numbered segments, and one of a format
\* with a map file and relative segments
ServerManifests ==
    {"#EXTM3U\n#EXT-X-MEDIA-SEQUENCE:482\n#EXTINF:5.0,\nhttps://rr3---sn-a.googlevideo.com/videoplayback/id/1/sq/482/seg.ts\n",
     "#EXTM3U\n#EXT-X-MAP:URI=\"init.mp4\"\n#EXTINF:5.0,\nchunk1.ts\n"}

OriginAnswers ==
    {Origin(FALSE, "", FALSE)} \cup {Origin(TRUE, m, TRUE) : m \in ServerManifests}

\* the url parameter of the proxy requests drawn
ProxyUrls ==
    {"https://rr3---sn-a.googlevideo.com/videoplayback/index.m3u8/sq/7/seg.ts",
     "https://manifest.googlevideo.com/api/hls_playlist/id/1/index.m3u8",
     "https://r1.googlevideo.com/hls_manifest/x/FILE.AAC",
     "https://manifest.googlevideo.com/api/hls_playlist/id/1/init.m4s",
     "https://r1.googlevideo.com/hls_manifest/x/index.m3u8/audio.aac",
     "https://i.ytimg.com/vi/a.jpg",
     "https://evil.example/x.m3u8",
     "https://evil.example/youtube.com/x.m3u8",
     "https%3A%2F%2Fevil.example%2Fx.ts",
     "https://youtube.com.evil.example/x.m3u8",
     "https://notyoutube.com/a.ts"}

Init == \E key \in Secrets : Idle(key)

Next ==
    \/ /\ pc = "start"
       /\ \E cred \in Credentials, q \in ServerQualities, x \in Extractions :
             GetM3u8(cred, q, x)
    \/ /\ pc = "start"
       /\ \E cred \in Credentials, q \in ServerQualities, x \in Extractions :
             GetStreamUrl(cred, q, x)
    \/ /\ pc = "start"
       /\ \E cred \in Credentials, id \in ServerFormatIds, x \in Extractions,
             o \in OriginAnswers :
             Subplaylist(cred, id, x, o)
    \/ /\ pc = "start"
       /\ \E cred \in Credentials, url \in ProxyUrls, o \in OriginAnswers :
             Proxy(cred, url, o)

Spec == Init /\ [][Next]_vars

-----------------------------------------------------------------------------
(* Reading a served request *)

\* the video the extraction returned is live
IsLive(i) == i.is_live \/ i.live_status = "is_live"

\* the request carries the configured key in the header or in the query
CarriesKey == req.header_key = API_KEY \/ req.query_key = API_KEY

\* the target host of a proxy request
TargetHost == Netloc(unquote(req.url))

\* host is an allow-listed name or a subdomain of one
OnAllowList(host) ==
    \E allowed \in ALLOWED_PROXY_HOSTS : host = allowed \/ EndsWith(host, "." \o allowed)

\* the positions of line where a /sq/<n>/ path segment starts
SequenceTokenStarts(line) ==
    {i \in 1..Len(line) :
        /\ StartsWithAt(line, "/sq/", i)
        /\ \E j \in (i + 5)..Len(line) :
              /\ Char(line, j) = "/"
              /\ \A k \in (i + 4)..(j - 1) : Char(line, k) \in Digits}

HasSequenceToken(line) == SequenceTokenStarts(line) # {}

\* the n of the first /sq/<n>/ path segment of line
SequenceToken(line) ==
    LET i == Min(SequenceTokenStarts(line))
    IN  SubSeq(line, i + 4, IndexOf(line, "/", i + 4) - 1)

\* the served text carries the URL, plain or percent-encoded
EmbedsUrl(text, url) == Contains(text, url) \/ Contains(text, quote(url))

-----------------------------------------------------------------------------
(* C4: a playlist request with quality master, or for a video that is      *)
(* live, is answered in the master form whatever quality it asks for: a    *)
(* playlist it answers is a master playlist and never a single-segment     *)
(* media playlist, and it answers no playlist only when the key check or   *)
(* the extraction fails or no format has video, a height and a URL.        *)
C4_MasterOrLiveAnswersMaster ==
    (pc = "done" /\ req.endpoint = "m3u8" /\ (req.quality = "master" \/ IsLive(info))) =>
        /\ resp.form \in {"master", "error"}
        /\ resp.status = 200 <=> resp.form = "master"
        /\ resp.form = "master" => resp.entries # <<>> /\ resp.media = NoMedia
        /\ resp.status = 401 => API_KEY # "" /\ ~CarriesKey
        /\ resp.status = 404 => MasterFormats(info.formats) = <<>>
        /\ resp.status \in {200, 400, 401, 404, 500}

\* a live video known by its live_status alone, asked with quality=best,
\* answered with a master playlist
C4_Witness ==
    /\ pc = "done"
    /\ req.endpoint = "m3u8"
    /\ req.quality = "best"
    /\ ~info.is_live
    /\ info.live_status = "is_live"
    /\ resp.form = "master"

(* C5: a proxy request whose target host is neither an allow-listed name   *)
(* nor a subdomain of one is answered 403 and makes no outbound fetch.     *)
C5_ForbiddenHostNoFetch ==
    (pc = "done" /\ req.endpoint = "proxy" /\ ~OnAllowList(TargetHost)) =>
        resp.status = 403 /\ outbound = <<>>

(* C6: with a secret configured, a request that carries the key neither in *)
(* the X-API-Key header nor in the api_key parameter is answered 401       *)
(* before any extraction or fetch, on every endpoint, the proxy and the    *)
(* sub-playlist included.                                                  *)
C6_KeyGateOnEveryEndpoint ==
    (pc = "done" /\ API_KEY # "" /\ req.endpoint # "health" /\ ~CarriesKey) =>
        resp.status = 401 /\ outbound = <<>>

(* C9: in the rewritten manifest of an HLS variant, a bare line with a     *)
(* /sq/<n>/ path segment has become a link that embeds n and not the       *)
(* origin URL, and a bare line without one is passed through unchanged.    *)
C9_SequenceAwareRewrite ==
    (pc = "done" /\ req.endpoint = "subplaylist" /\ resp.form = "rewritten") =>
        LET src == splitlines(origin.manifest)
            dst == splitlines(resp.body)
        IN  \A i \in 1..Len(src) :
               IsBare(src[i]) =>
                  /\ i <= Len(dst)
                  /\ IF HasSequenceToken(strip(src[i]))
                     THEN /\ dst[i] # src[i]
                          /\ Contains(dst[i], SequenceToken(strip(src[i])))
                          /\ ~EmbedsUrl(dst[i], strip(src[i]))
                     ELSE dst[i] = src[i]

(* C10: neither the playlist nor the sub-playlist endpoint answers a       *)
(* request for a live video with the single-segment media playlist, of     *)
(* type VOD with an end-of-list marker.                                    *)
C10_LiveNeverSingleSegment ==
    (pc = "done" /\ req.endpoint \in {"m3u8", "subplaylist"} /\ IsLive(info)) =>
        /\ resp.form # "single"
        /\ ~(resp.media.playlist_type = "VOD" /\ resp.media.endlist)

-----------------------------------------------------------------------------
(* GET /api/stream of the serverless app (src/api/index.py) *)

\* most formats of a video drawn for the requests to the serverless app
MaxStreamFormats == 2

\* the disguises get_stream_url tries, in order
StreamClients == <<"ios", "tv", "android">>

\* an HLS format, a progressive mp4, a format whose URL ends in .m3u8
StreamShapes ==
    {[url |-> "https://m.googlevideo.com/hls/a", protocol |-> "m3u8_native", ext |-> "mp4"],
     [url |-> "https://r.googlevideo.com/v/b", protocol |-> "https", ext |-> "mp4"],
     [url |-> "https://m.googlevideo.com/c.m3u8", protocol |-> "https", ext |-> "webm"]}

\* what ydl.extract_info answers to one disguise: it raises, or returns formats
StreamExtractions ==
    {[ok |-> FALSE, formats |-> <<>>]} \cup
    {[ok |-> TRUE, formats |-> fs] :
        fs \in UNION {[1..n -> StreamShapes] : n \in 0..MaxStreamFormats}}

NoStream == [stream_url |-> "", format |-> "error"]

\* the first of the formats of fs at the positions I, as extract_stream
\* returns it
FirstStream(fs, I, format) == [stream_url |-> fs[Min(I)].url, format |-> format]

\* extract_stream: (stream_url, format), or (None, message) on any exception
extract_stream(x) ==
    LET fs == x.formats
        Native == {i \in 1..Len(fs) : fs[i].protocol = "m3u8_native"}
        M3u8Url == {i \in 1..Len(fs) : EndsWith(fs[i].url, ".m3u8")}
        Mp4 == {i \in 1..Len(fs) : fs[i].protocol = "https" /\ fs[i].ext = "mp4"}
    IN  IF ~x.ok THEN NoStream
        ELSE IF Native # {} THEN FirstStream(fs, Native, "m3u8")
        ELSE IF M3u8Url # {} THEN FirstStream(fs, M3u8Url, "m3u8")
        ELSE IF Mp4 # {} THEN FirstStream(fs, Mp4, "mp4")
        ELSE NoStream

\* the number of disguises get_stream_url tries when xs[k] is what the k-th
\* answers: up to the first that yields a stream URL
StreamAttempts(xs) ==
    LET Yielding == {k \in 1..Len(xs) : extract_stream(xs[k]).stream_url # ""}
    IN  IF Yielding = {} THEN Len(xs) ELSE Min(Yielding)

\* get_stream_url of src/api/index.py; the temporary cookie file it writes from
\* the environment is unlinked on every path
Stream(xs) ==
    LET n == StreamAttempts(xs)
        found == extract_stream(xs[n])
    IN  /\ pc = "start"
        /\ pc' = "done"
        /\ req' = Request("stream", NoCredentials, "", "", "")
        /\ outbound' = [k \in 1..n |-> Call("extract", xs[k].ok)]
        /\ resp' = IF found.stream_url # ""
                   THEN [status |-> 200, form |-> "json", stream_url |-> found.stream_url,
                         format |-> found.format, client_used |-> StreamClients[n],
                         warning |-> (StreamClients[n] = "android")]
                   ELSE ErrorResponse(500)
        /\ UNCHANGED <<content, base_url, rewritten, API_KEY, info, origin>>
        /\ UNCHANGED cookie_vars

\* the requests to either app
NextApps ==
    \/ Next
    \/ /\ pc = "start"
       /\ \E xs \in [1..Len(StreamClients) -> StreamExtractions] : Stream(xs)

SpecApps == Init /\ [][NextApps]_vars

\* the outbound calls of the request that failed
FailedCalls == {k \in 1..Len(outbound) : ~outbound[k].ok}

(* C11: a request in which an extraction or an origin fetch fails ends     *)
(* with an error response, and the failed call is the last outbound call   *)
(* of the request: no retry, no fallback to a success body.                *)
C11_FailureEndsRequest ==
    (pc = "done" /\ FailedCalls # {}) =>
        /\ resp.form = "error"
        /\ resp.status >= 400
        /\ FailedCalls = {Len(outbound)}

-----------------------------------------------------------------------------
(* The cookie file: POST and DELETE /api/cookies run on the event loop,    *)
(* the extractions of get_m3u8 and subplaylist in executor threads beside  *)
(* them. The uploads drawn are those upload_cookies accepts; COOKIES_FILE  *)
(* and ./cookies.txt are not set.                                          *)

server_vars == <<pc, content, base_url, rewritten, API_KEY, info, origin, req, resp, outbound>>

\* find_cookies: the file exists and is not empty
find_cookies == cookies_txt.exists /\ cookies_txt.size > 0

\* upload_cookies up to the open(dest, "wb") of dest.write_bytes(content),
\* which creates the file or truncates the one in place
UploadOpen ==
    /\ upload.pc = "idle"
    /\ upload.uploads < MaxUploads
    /\ upload' = [pc |-> "writing", uploads |-> upload.uploads + 1]
    /\ cookies_txt' = [exists |-> TRUE, version |-> upload.uploads + 1, size |-> 0]
    /\ UNCHANGED <<reader, observed>>
    /\ UNCHANGED server_vars

\* a write of write_bytes reaches the file: some more of the content, up to
\* all of it
UploadWrite ==
    /\ upload.pc = "writing"
    /\ cookies_txt.size < CookieSize
    /\ \E size \in (cookies_txt.size + 1)..CookieSize :
          cookies_txt' = [cookies_txt EXCEPT !.size = size]
    /\ UNCHANGED <<upload, reader, observed>>
    /\ UNCHANGED server_vars

\* write_bytes closes the file and upload_cookies answers
UploadClose ==
    /\ upload.pc = "writing"
    /\ cookies_txt.size = CookieSize
    /\ upload' = [upload EXCEPT !.pc = "idle"]
    /\ UNCHANGED <<cookies_txt, reader, observed>>
    /\ UNCHANGED server_vars

\* delete_cookies when find_cookies finds the file: os.remove
DeleteCookies ==
    /\ upload.pc = "idle"
    /\ find_cookies
    /\ cookies_txt' = NoFile
    /\ UNCHANGED <<upload, reader, observed>>
    /\ UNCHANGED server_vars

\* get_ydl_opts of an extraction: find_cookies; without a file the extraction
\* runs without cookies
ReaderFind ==
    /\ reader.pc = "idle"
    /\ Len(observed) < MaxLoads
    /\ IF find_cookies
       THEN reader' = [pc |-> "found"] /\ UNCHANGED observed
       ELSE observed' = Append(observed, NoFile) /\ UNCHANGED reader
    /\ UNCHANGED <<cookies_txt, upload>>
    /\ UNCHANGED server_vars

\* YoutubeDL(opts) loads opts["cookiefile"]: what the file holds by then
ReaderLoad ==
    /\ reader.pc = "found"
    /\ reader' = [pc |-> "idle"]
    /\ observed' = Append(observed, cookies_txt)
    /\ UNCHANGED <<cookies_txt, upload>>
    /\ UNCHANGED server_vars

InitCookies == Idle("")

NextCookies ==
    \/ UploadOpen
    \/ UploadWrite
    \/ UploadClose
    \/ DeleteCookies
    \/ ReaderFind
    \/ ReaderLoad

SpecCookies == InitCookies /\ [][NextCookies]_vars

\* the cookie file as an extraction loaded it is whole: all of one upload
WholeFile(f) == f.exists /\ f.version \in 1..MaxUploads /\ f.size = CookieSize

(* C12: whatever upload or delete runs beside it, an extraction loads the  *)
(* whole cookie file of one upload, the previous or the new, or no file,   *)
(* never a partially written one.                                          *)
C12_ReaderSeesWholeFile ==
    \A i \in 1..Len(observed) : observed[i] = NoFile \/ WholeFile(observed[i])

-----------------------------------------------------------------------------
\* the path of the target of a proxy request
TargetPath == UrlPath(unquote(req.url))

\* the path is of a numbered segment or ends as a segment file does
IsBinaryPath(path) ==
    \/ Contains(path, "/sq/")
    \/ \E suffix \in {".ts", ".aac", ".m4s"} : EndsWith(path, suffix)

\* the path carries a manifest marker before its end
HasManifestMarker(path) ==
    \E marker \in {"index.m3u8", "/hls_playlist/", "/hls_manifest/"} :
        Contains(path, marker) /\ ~EndsWith(path, marker)

(* C13: a proxy request for an allow-listed target whose path has a /sq/   *)
(* component or ends in .ts, .aac or .m4s is served as a binary payload:   *)
(* one segment fetch, the bytes streamed under a media type that is not    *)
(* the playlist type, and the manifest rewriter not run, whatever manifest *)
(* marker occurs in the path.                                              *)
C13_SegmentsStreamedRaw ==
    (pc = "done" /\ req.endpoint = "proxy" /\ OnAllowList(TargetHost)
        /\ IsBinaryPath(TargetPath)) =>
        /\ resp.status = 200
        /\ resp.form \in {"bytes", "aborted"}
        /\ origin.segment_ok => resp.form = "bytes"
        /\ resp.media_type \in {"video/mp2t", "video/mp4", "audio/aac"}
        /\ resp.body = ""
        /\ Len(outbound) = 1 /\ outbound[1].call = "segment"

\* a segment with index.m3u8 in the middle of its path, streamed
C13_Witness ==
    /\ pc = "done"
    /\ req.endpoint = "proxy"
    /\ OnAllowList(TargetHost)
    /\ IsBinaryPath(TargetPath)
    /\ HasManifestMarker(TargetPath)
    /\ origin.manifest_ok
    /\ resp.form = "bytes"

-----------------------------------------------------------------------------
\* ceil(d) of a duration d given in tenths of a second
CeilOfDuration(tenths) == (tenths + 9) \div 10

(* C14: the single-segment media playlist of a video of duration d         *)
(* declares the target duration ceil(d)+1, media sequence 0 and type VOD,  *)
(* and has exactly one segment URI line and the end-of-list marker.        *)
C14_TargetDurationCeilPlusOne ==
    (pc = "done" /\ resp.form = "single") =>
        /\ resp.media.targetduration = CeilOfDuration(info.duration) + 1
        /\ resp.media.media_sequence = 0
        /\ resp.media.playlist_type = "VOD"
        /\ Len(resp.media.segments) = 1
        /\ resp.media.endlist

====
